---- MODULE Spec2Model ----
(***************************************************************************)
(* Model of the lazy range adaptors of ltl (include/ltl/Range):            *)
(* NullableFunction, Range, BaseIterator and the Filter / Taker / Map /    *)
(* Value / Zip iterators, the pipe operators and the free functions zip,   *)
(* valueRange and steppedValueRange.                                       *)
(*                                                                         *)
(* A container iterator is the record [kind |-> "ptr", c, it]: an offset   *)
(* it into the container srcs[c] (0 = begin, Len = end).  An adaptor       *)
(* iterator is a record [kind, it, sb, se, fn, n] holding m_it,            *)
(* m_sentinelBegin, m_sentinelEnd, m_function (NoFn = empty holder) and    *)
(* TakerIterator::m_n.  Operations return [x |-> iterator, err |-> e]      *)
(* (or [v |-> value, err |-> e] for a dereference); err is "" when the     *)
(* operation ran, the name of the failed assertion when an assert fired,   *)
(* or the name of the undefined behaviour the operation would execute.     *)
(***************************************************************************)
EXTENDS Integers, Sequences, FiniteSets, TLC

\* ---------------------------------------------------------------- bounds
MaxLen == 3
MaxTake == 4
MaxGarbage == 1
ValueMax == 7
MaxStep == 3
MaxZipLen == 2
MaxOffset == 2
MaxHolders == 2

\* the client of the ranges: its containers, the view it builds and traverses,
\* and invoked, the calls of user callables made while views were being built
VARIABLES srcs, prog, k, chain, view, alt, cur, out, pc, mode, res, invoked

\* the client of NullableFunction: the holders it owns and the callables held
VARIABLES variant, holders, objects, hlog

rangeVars == <<srcs, prog, k, chain, view, alt, cur, out, pc, mode, res, invoked>>

holderVars == <<variant, holders, objects, hlog>>

vars == <<rangeVars, holderVars>>

\* ------------------------------------------------------- user callables
Preds == {"isEven", "isOdd"}
Funs == {"square", "succ"}
NoFn == "none"
NothingFn == "Nothing"

\* the call (*m_function)(x) of a held predicate
ApplyPred(p, x) ==
    IF p = "isEven" THEN x % 2 = 0 ELSE x % 2 = 1

\* the call (*m_function)(x) of a held transform
ApplyFun(f, x) ==
    IF f = "square" THEN x * x ELSE x + 1

\* ------------------------------------------------------ result records
Ok(x) == [x |-> x, err |-> ""]
Err(x, e) == [x |-> x, err |-> e]
Val(v) == [v |-> v, err |-> ""]
Bad(e) == [v |-> 0, err |-> e]

AssertErrs == {"assert_end", "assert_begin", "assert_fn", "assert_pred",
               "assert_idx", "assert_empty", "assert_zip"}

\* ValueType arithmetic: an unsigned type whose max() is ValueMax
Wrap(x) == x % (ValueMax + 1)

\* ---------------------------------------------------------- iterators
Ptr(c, i) == [kind |-> "ptr", c |-> c, it |-> i]

RECURSIVE IterEq(_, _)
\* BaseIterator::operator== compares m_it only, with the == of the inner type
IterEq(a, b) ==
    CASE a.kind = "ptr" -> a.it = b.it
      [] a.kind = "value" -> a.it = b.it
      [] a.kind = "zip" -> \A j \in 1..Len(a.it) : IterEq(a.it[j], b.it[j])
      [] OTHER -> IterEq(a.it, b.it)

\* m_it == other, with the == of It (a tuple for Zip, a number for Value)
PosEq(a, x, y) ==
    CASE a.kind = "value" -> x = y
      [] a.kind = "zip" -> \A j \in 1..Len(x) : IterEq(x[j], y[j])
      [] OTHER -> IterEq(x, y)

\* NullableFunction::operator() on a predicate holder: [v |-> BOOLEAN, err]
CallPred(fn, d) ==
    IF d.err # "" THEN d
    ELSE IF fn = NoFn THEN Bad("assert_fn")
    ELSE Val(ApplyPred(fn, d.v))

\* CallFun that hands the element back without invoking the held callable
CallFunNotInvoked(fn, d) ==
    IF d.err # "" THEN d
    ELSE IF fn = NoFn THEN Bad("assert_fn")
    ELSE Val(d.v)

\* NullableFunction::operator() on a transform holder
CallFun(fn, d) ==
    IF d.err # "" THEN d
    ELSE IF fn = NoFn THEN Bad("assert_fn")
    ELSE Val(ApplyFun(fn, d.v))

\* Call(op, a) applies one operation to the iterator a, statically dispatched
\* on its type; the operations below use it for the calls they make on the
\* iterator they wrap
RECURSIVE Call(_, _)

\* operator* of a container iterator; reading at end() is undefined
PtrDeref(a) ==
    IF a.it >= 0 /\ a.it < Len(srcs[a.c]) THEN Val(srcs[a.c][a.it + 1])
    ELSE Bad("ub_deref")

\* operator++ of a container iterator
PtrIncrement(a) ==
    IF a.it < Len(srcs[a.c]) THEN Ok([a EXCEPT !.it = @ + 1])
    ELSE Err(a, "ub_inc")

\* operator-- of a container iterator
PtrDecrement(a) ==
    IF a.it > 0 THEN Ok([a EXCEPT !.it = @ - 1])
    ELSE Err(a, "ub_dec")

\* BaseIterator::operator* (Filter, Taker)
BaseDeref(a) ==
    IF IterEq(a.it, a.se) THEN Bad("assert_end") ELSE Call("deref", a.it)

\* MapIterator::operator*
MapDeref(a) == CallFun(a.fn, Call("deref", a.it))

\* ValueIterator::operator*
ValueDeref(a) == Val(a.it)

\* ZipIterator::operator*
ZipDeref(a) ==
    LET ds == [j \in 1..Len(a.it) |-> Call("deref", a.it[j])]
    IN  IF \E j \in 1..Len(a.it) : ds[j].err # "" THEN Bad("ub_deref")
        ELSE Val([j \in 1..Len(a.it) |-> ds[j].v])

\* FilterAdvanceInc with the negation of the predicate lost
FilterAdvanceIncNoNegation(a) ==
    IF IterEq(a.it, a.se) THEN Ok(a)
    ELSE LET p == CallPred(a.fn, Call("deref", a.it))
         IN  IF p.err # "" THEN Err(a, p.err)
             ELSE IF ~p.v THEN Ok(a)
             ELSE LET r == Call("inc", a.it)
                  IN  IF r.err # "" THEN Err(a, r.err)
                      ELSE Call("fwd", [a EXCEPT !.it = r.x])

\* FilterIterator::advanceUntilNext(IncrementTag)
FilterAdvanceInc(a) ==
    IF IterEq(a.it, a.se) THEN Ok(a)
    ELSE LET p == CallPred(a.fn, Call("deref", a.it))
         IN  IF p.err # "" THEN Err(a, p.err)
             ELSE IF p.v THEN Ok(a)
             ELSE LET r == Call("inc", a.it)
                  IN  IF r.err # "" THEN Err(a, r.err)
                      ELSE Call("fwd", [a EXCEPT !.it = r.x])

\* FilterAdvanceDec without the assertion that ends it
FilterAdvanceDecNoAssert(a) ==
    LET p == CallPred(a.fn, Call("deref", a.it))
    IN  IF IterEq(a.it, a.sb) THEN Ok(a)
        ELSE IF p.err # "" THEN Err(a, p.err)
        ELSE IF p.v THEN Ok(a)
        ELSE LET r == Call("dec", a.it)
             IN  IF r.err # "" THEN Err(a, r.err)
                 ELSE Call("bwd", [a EXCEPT !.it = r.x])

\* FilterIterator::advanceUntilNext(DecrementTag)
FilterAdvanceDec(a) ==
    LET p == CallPred(a.fn, Call("deref", a.it))
    IN  IF IterEq(a.it, a.sb)
        THEN IF p.err # "" THEN Err(a, p.err)
             ELSE IF p.v THEN Ok(a) ELSE Err(a, "assert_pred")
        ELSE IF p.err # "" THEN Err(a, p.err)
        ELSE IF p.v THEN Ok(a)
        ELSE LET r == Call("dec", a.it)
             IN  IF r.err # "" THEN Err(a, r.err)
                 ELSE Call("bwd", [a EXCEPT !.it = r.x])

\* TakerAdvanceInc with the assignment the wrong way round
TakerAdvanceIncMovesSentinel(a) ==
    IF a.n = 0 THEN Ok([a EXCEPT !.se = a.it])
    ELSE Ok([a EXCEPT !.n = @ - 1])

\* TakerIterator::advanceUntilNext(IncrementTag)
TakerAdvanceInc(a) ==
    IF a.n = 0 THEN Ok([a EXCEPT !.it = a.se])
    ELSE Ok([a EXCEPT !.n = @ - 1])

\* TakerIterator::advanceUntilNext(DecrementTag)
TakerAdvanceDec(a) == Ok([a EXCEPT !.n = @ + 1])

\* the if_constexpr(hasAdvanceUntilNext(it)) dispatch of BaseIterator
advanceUntilNext(a, tag) ==
    CASE a.kind = "filter" ->
           IF tag = "IncrementTag" THEN Call("fwd", a) ELSE Call("bwd", a)
      [] a.kind = "take" ->
           IF tag = "IncrementTag" THEN TakerAdvanceInc(a) ELSE TakerAdvanceDec(a)
      [] OTHER -> Ok(a)

\* BaseIterator::operator++ (Filter, Taker, Map)
BaseIncrement(a) ==
    IF IterEq(a.it, a.se) THEN Err(a, "assert_end")
    ELSE LET r == Call("inc", a.it)
         IN  IF r.err # "" THEN Err(a, r.err)
             ELSE advanceUntilNext([a EXCEPT !.it = r.x], "IncrementTag")

\* BaseDecrement that does not resynchronise
BaseDecrementNoHook(a) ==
    IF IterEq(a.it, a.sb) THEN Err(a, "assert_begin")
    ELSE LET r == Call("dec", a.it)
         IN  IF r.err # "" THEN Err(a, r.err)
             ELSE Ok([a EXCEPT !.it = r.x])

\* BaseIterator::operator-- (Filter, Taker, Map)
BaseDecrement(a) ==
    IF IterEq(a.it, a.sb) THEN Err(a, "assert_begin")
    ELSE LET r == Call("dec", a.it)
         IN  IF r.err # "" THEN Err(a, r.err)
             ELSE advanceUntilNext([a EXCEPT !.it = r.x], "DecrementTag")

\* ValueIterator::operator++
ValueIncrement(a) ==
    IF a.it = a.se THEN Err(a, "assert_end")
    ELSE Ok([a EXCEPT !.it = Wrap(@ + a.step)])

\* ValueIterator::operator--
ValueDecrement(a) ==
    IF a.it = a.sb THEN Err(a, "assert_begin")
    ELSE Ok([a EXCEPT !.it = Wrap(@ + (ValueMax + 1) - Wrap(a.step))])

\* ZipIncrement that advances the first component only
ZipIncrementFirstOnly(a) ==
    IF PosEq(a, a.it, a.se) THEN Err(a, "assert_end")
    ELSE LET r == Call("inc", a.it[1])
         IN  IF r.err # "" THEN Err(a, "ub_inc")
             ELSE Ok([a EXCEPT !.it[1] = r.x])

\* ZipIterator::operator++
ZipIncrement(a) ==
    IF PosEq(a, a.it, a.se) THEN Err(a, "assert_end")
    ELSE LET rs == [j \in 1..Len(a.it) |-> Call("inc", a.it[j])]
         IN  IF \E j \in 1..Len(a.it) : rs[j].err # "" THEN Err(a, "ub_inc")
             ELSE Ok([a EXCEPT !.it = [j \in 1..Len(a.it) |-> rs[j].x]])

\* ZipIterator::operator--
ZipDecrement(a) ==
    IF PosEq(a, a.it, a.sb) THEN Err(a, "assert_begin")
    ELSE LET rs == [j \in 1..Len(a.it) |-> Call("dec", a.it[j])]
         IN  IF \E j \in 1..Len(a.it) : rs[j].err # "" THEN Err(a, "ub_dec")
             ELSE Ok([a EXCEPT !.it = [j \in 1..Len(a.it) |-> rs[j].x]])

\* *a, by the type of a
Deref(a) ==
    CASE a.kind = "ptr" -> PtrDeref(a)
      [] a.kind = "map" -> MapDeref(a)
      [] a.kind = "value" -> ValueDeref(a)
      [] a.kind = "zip" -> ZipDeref(a)
      [] OTHER -> BaseDeref(a)

\* ++a, by the type of a
Increment(a) ==
    CASE a.kind = "ptr" -> PtrIncrement(a)
      [] a.kind = "value" -> ValueIncrement(a)
      [] a.kind = "zip" -> ZipIncrement(a)
      [] OTHER -> BaseIncrement(a)

\* --a, by the type of a
Decrement(a) ==
    CASE a.kind = "ptr" -> PtrDecrement(a)
      [] a.kind = "value" -> ValueDecrement(a)
      [] a.kind = "zip" -> ZipDecrement(a)
      [] OTHER -> BaseDecrement(a)

Call(op, a) ==
    CASE op = "deref" -> Deref(a)
      [] op = "inc" -> Increment(a)
      [] op = "dec" -> Decrement(a)
      [] op = "fwd" -> FilterAdvanceInc(a)
      [] OTHER -> FilterAdvanceDec(a)

\* ------------------------------------------------------- constructors
\* BaseIterator(It it): the three positions are the same iterator, no callable
EndCtor(kind, e) ==
    [kind |-> kind, it |-> e, sb |-> e, se |-> e, fn |-> NoFn, n |-> 0]

\* BaseIterator(It it, It sentinelBegin, It sentinelEnd, Function function);
\* n0 is what the derived object's m_n holds while the base is constructed
BaseCtor(kind, it, sb, se, fn, n0) ==
    advanceUntilNext([kind |-> kind, it |-> it, sb |-> sb, se |-> se,
                      fn |-> fn, n |-> n0], "IncrementTag")

\* TakerIterator(It begin, It sentinelBegin, It sentinelEnd, std::size_t n):
\* the base is constructed (and runs the hook) before m_n{n} is initialised,
\* so the hook reads an indeterminate m_n, here g; then the body runs it again
TakerCtor(begin, sb, se, n, g) ==
    LET base == BaseCtor("take", begin, sb, se, NothingFn, g)
    IN  TakerAdvanceInc([base.x EXCEPT !.n = n])

\* ValueIterator(ValueType value, ValueType step = 1)
ValueIterator(value, step) ==
    [kind |-> "value", it |-> value, sb |-> 0, se |-> ValueMax, step |-> step]

\* ------------------------------------------------------------- Range
Range(b, e) == [b |-> b, e |-> e]

\* Range(R &r): std::begin(r), std::end(r) of the container srcs[c]
SourceRange(c) == Range(Ptr(c, 0), Ptr(c, Len(srcs[c])))

\* how many steps a loop of the model may take before it is cut off
Fuel == ValueMax + MaxLen + 2

RECURSIVE DistanceLoop(_, _, _, _)
DistanceLoop(a, b, d, fuel) ==
    IF IterEq(a, b) THEN Val(d)
    ELSE IF fuel = 0 THEN Bad("diverges")
    ELSE LET r == Call("inc", a)
         IN  IF r.err # "" THEN Bad(r.err)
             ELSE DistanceLoop(r.x, b, d + 1, fuel - 1)

\* Distance with the counter d starting at 1
DistanceFromOne(b, a) == DistanceLoop(a, b, 1, Fuel)

\* operator-(const DerivedIt &b, DerivedIt a): counts the ++a until a == b
Distance(b, a) == DistanceLoop(a, b, 0, Fuel)

RECURSIVE OperatorPlusAssign(_, _)
\* BaseIterator::operator+=(long long n)
OperatorPlusAssign(a, n) ==
    IF n = 0 THEN Ok(a)
    ELSE LET r == IF n > 0 THEN Call("inc", a) ELSE Call("dec", a)
         IN  IF r.err # "" THEN r
             ELSE OperatorPlusAssign(r.x, IF n > 0 THEN n - 1 ELSE n + 1)

RECURSIVE OperatorMinusAssign(_, _)
\* BaseIterator::operator-=(long long n)
OperatorMinusAssign(a, n) ==
    IF n = 0 THEN Ok(a)
    ELSE LET r == IF n > 0 THEN Call("dec", a) ELSE Call("inc", a)
         IN  IF r.err # "" THEN r
             ELSE OperatorMinusAssign(r.x, IF n > 0 THEN n - 1 ELSE n + 1)

\* operator+(DerivedIt a, long long n)
OperatorPlus(a, n) == OperatorPlusAssign(a, n)

\* Range::empty
RangeEmpty(r) == IterEq(r.b, r.e)

\* Range::size: std::distance(m_it, m_end)
RangeSize(r) == Distance(r.e, r.b)

\* Range::operator[]
RangeIndex(r, idx) ==
    LET s == RangeSize(r)
    IN  IF s.err # "" THEN s
        ELSE IF ~(idx < s.v) THEN Bad("assert_idx")
        ELSE LET p == OperatorPlus(r.b, idx)
             IN  IF p.err # "" THEN Bad(p.err) ELSE Call("deref", p.x)

\* Range::front
RangeFront(r) == IF RangeEmpty(r) THEN Bad("assert_empty") ELSE Call("deref", r.b)

\* Range::back
RangeBack(r) ==
    IF RangeEmpty(r) THEN Bad("assert_empty")
    ELSE LET s == RangeSize(r)
         IN  IF s.err # "" THEN s
             ELSE LET p == OperatorPlus(r.b, s.v - 1)
                  IN  IF p.err # "" THEN Bad(p.err) ELSE Call("deref", p.x)

RECURSIVE ToVectorLoop(_, _, _, _)
ToVectorLoop(a, e, acc, fuel) ==
    IF IterEq(a, e) THEN Val(acc)
    ELSE IF fuel = 0 THEN [v |-> acc, err |-> "diverges"]
    ELSE LET d == Call("deref", a)
             r == Call("inc", a)
         IN  IF d.err # "" THEN [v |-> acc, err |-> d.err]
             ELSE IF r.err # "" THEN [v |-> Append(acc, d.v), err |-> r.err]
             ELSE ToVectorLoop(r.x, e, Append(acc, d.v), fuel - 1)

\* operator|(R, to_vector_t): std::vector(std::begin(r), std::end(r))
ToVector(r) == ToVectorLoop(r.b, r.e, <<>>, Fuel)

\* ------------------------------------------------------ pipe operators
FilterType(f) == [type |-> "filter", f |-> f, n |-> 0]
MapType(f) == [type |-> "map", f |-> f, n |-> 0]
TakerType(n) == [type |-> "take", f |-> NothingFn, n |-> n]

\* OP(FilterType, FilterIterator): operator|(R &&r, FilterType<F> f)
PipeFilter(r, f) ==
    LET b == BaseCtor("filter", r.b, r.b, r.e, f, 0)
    IN  IF b.err # "" THEN Err(r, b.err)
        ELSE Ok(Range(b.x, EndCtor("filter", r.e)))

\* PipeMap that builds the begin iterator without the callable
PipeMapEmptyHolder(r, f) ==
    LET b == BaseCtor("map", r.b, r.b, r.e, NoFn, 0)
    IN  Ok(Range(b.x, EndCtor("map", r.e)))

\* OP(MapType, MapIterator): operator|(R &&r, MapType<F> f)
PipeMap(r, f) ==
    LET b == BaseCtor("map", r.b, r.b, r.e, f, 0)
    IN  Ok(Range(b.x, EndCtor("map", r.e)))

\* operator|(R &&r, TakerType taker)
PipeTaker(r, n, g) ==
    LET b == TakerCtor(r.b, r.b, r.e, n, g)
    IN  Ok(Range(b.x, EndCtor("take", r.e)))

\* r | descriptor, by overload
Pipe(r, d, g) ==
    CASE d.type = "filter" -> PipeFilter(r, d.f)
      [] d.type = "map" -> PipeMap(r, d.f)
      [] OTHER -> PipeTaker(r, d.n, g)

\* operator|(F1 &&f1, F2 &&f2): tuple_t{f1, f2}
ComposeTwo(f1, f2) == <<f1, f2>>

\* operator|(Tuple &&tuple, F &&f): tuple.push_back(f)
PushBack(tuple, f) == Append(tuple, f)

RECURSIVE piper(_, _, _)
\* piper(r, t, ts...) = piper(r | t, ts...); piper(r) = r
piper(r, ts, gs) ==
    IF ts = <<>> THEN Ok(r)
    ELSE LET h == Pipe(r, Head(ts), Head(gs))
         IN  IF h.err # "" THEN h ELSE piper(h.x, Tail(ts), Tail(gs))

\* operator|(R &&r, Tuple &&chainFunctions)
PipeTuple(r, chainFunctions, gs) == piper(r, chainFunctions, gs)

\* --------------------------------------------------- free functions
\* zip(containers...): the size assertion, then the begin and end ZipIterator
zip(rs) ==
    LET sz == [j \in 1..Len(rs) |-> RangeSize(rs[j])]
    IN  IF \E j \in 2..Len(rs) : sz[1].v # sz[j].v
        THEN Err(Range(Ptr(1, 0), Ptr(1, 0)), "assert_zip")
        ELSE Ok(Range(
                 BaseCtor("zip", [j \in 1..Len(rs) |-> rs[j].b],
                          [j \in 1..Len(rs) |-> rs[j].b],
                          [j \in 1..Len(rs) |-> rs[j].e], NothingFn, 0).x,
                 EndCtor("zip", [j \in 1..Len(rs) |-> rs[j].e])))

\* valueRange(ValueType start, ValueType end)
valueRange(start, end) == Range(ValueIterator(start, 1), ValueIterator(end, 1))

\* steppedValueRange(ValueType start, ValueType end, ValueType step)
steppedValueRange(start, end, step) ==
    Range(ValueIterator(start, step), ValueIterator(end, step))

\* enumerate that numbers the elements from 1
enumerateFromOne(c) ==
    zip(<<valueRange(1, Len(srcs[c]) + 1), SourceRange(c)>>)

\* enumerate(container): zip(valueRange<std::size_t>(0, container.size()), container)
enumerate(c) ==
    zip(<<valueRange(0, Len(srcs[c])), SourceRange(c)>>)

\* -------------------------------------- calls of the user's callables
\* HookCalls that goes on to the end of the sequence after the first match
HookCallsPastMatch(a) ==
    LET n == Len(srcs[a.it.c])
    IN  [i \in 1..(n - a.it.it) |-> [fn |-> a.fn, arg |-> srcs[a.it.c][a.it.it + i]]]

RECURSIVE HookCalls(_)
\* the calls m_function(*m_it) that the loop of
\* FilterIterator::advanceUntilNext(IncrementTag) makes, in order, as
\* [fn |-> the callable, arg |-> its argument]; the filters of this model wrap a
\* container iterator, whose operator* calls nothing
HookCalls(a) ==
    IF IterEq(a.it, a.se) THEN <<>>
    ELSE LET d == Call("deref", a.it)
             p == CallPred(a.fn, d)
             r == Call("inc", a.it)
         IN  IF p.err # "" THEN <<>>
             ELSE <<[fn |-> a.fn, arg |-> d.v]>> \o
                  (IF p.v \/ r.err # "" THEN <<>>
                   ELSE HookCalls([a EXCEPT !.it = r.x]))

\* the calls made by BaseIterator(It, It, It, Function): those of the hook of
\* the derived iterator, if it has one (Taker's hook calls nothing, Map and
\* Zip have none)
ConstructorCalls(kind, it, sb, se, fn) ==
    IF kind = "filter"
    THEN HookCalls([kind |-> kind, it |-> it, sb |-> sb, se |-> se, fn |-> fn, n |-> 0])
    ELSE <<>>

\* the calls made by r | d: those of the constructor of the begin iterator
\* (the end iterator is built by BaseIterator(It), which calls nothing)
PipeCalls(r, d) == ConstructorCalls(d.type, r.b, r.b, r.e, d.f)

RECURSIVE piperCalls(_, _, _)
\* the calls made by piper(r, ts...)
piperCalls(r, ts, gs) ==
    IF ts = <<>> THEN <<>>
    ELSE LET h == Pipe(r, Head(ts), Head(gs))
         IN  PipeCalls(r, Head(ts)) \o
             (IF h.err # "" THEN <<>> ELSE piperCalls(h.x, Tail(ts), Tail(gs)))

\* the calls made by d1 | d2 and by tuple | d: the descriptors are moved into
\* a tuple_t and nothing is called
ComposeCalls == <<>>

\* ------------------------------------------------------ the client
\* the element values: an odd and an even number, so that either predicate
\* holds of one and fails of the other
Elems == {1, 2}

\* the containers a client may hold: every sequence of at most MaxLen elements
Sources == UNION {[1..m -> Elems] : m \in 0..MaxLen}

\* what an uninitialised std::size_t may hold
Garbage == 0..MaxGarbage

\* the containers a client zips
ZipSources == UNION {[1..m -> Elems] : m \in 0..MaxZipLen}

\* the values the m_n of a TakerIterator under construction may hold; the other
\* iterators have no such field (res.v records the choice)
Indeterminate(d) == IF d.type = "take" THEN Garbage ELSE {0}

Descriptors ==
    {FilterType(p) : p \in Preds} \cup {MapType(f) : f \in Funs}
        \cup {TakerType(n) : n \in 0..MaxTake}

\* the pipelines a client builds: one descriptor, or filter | map | take_n
Pipelines ==
    {<<d>> : d \in Descriptors}
        \cup {<<FilterType(p), MapType(f), TakerType(n)>> :
                p \in Preds, f \in Funs, n \in 0..MaxTake}

NoIt == [kind |-> "none"]
NoView == Range(NoIt, NoIt)
NoRes == [op |-> "none", arg |-> 0, at |-> NoIt, v |-> 0, err |-> ""]

\* a traversal longer than this has left every range of the model
MaxOut == ValueMax + MaxLen + 1

\* the view is built, and the client is not in the middle of composing
Ready == view # NoView /\ k = Len(prog.descs) /\ chain = <<>>

\* where the program is after an operation ended with err
After(err, ok) ==
    IF err = "" THEN ok ELSE IF err \in AssertErrs THEN "aborted" ELSE "ub"

\* the program of the ranges owns no NullableFunction of its own
NoHolders ==
    /\ variant = "none"
    /\ holders = <<>>
    /\ objects = <<>>
    /\ hlog = <<>>

Init ==
    /\ \/ \E s \in Sources, ds \in Pipelines :
            /\ srcs = <<s, <<>>>>
            /\ prog = [kind |-> "pipe", descs |-> ds, args |-> <<>>]
       \/ \E s1 \in ZipSources, s2 \in ZipSources :
            /\ srcs = <<s1, s2>>
            /\ prog = [kind |-> "zip", descs |-> <<>>, args |-> <<>>]
       \/ \E a \in 0..ValueMax, b \in 0..ValueMax, st \in 1..MaxStep :
            /\ srcs = <<<<>>, <<>>>>
            /\ prog = [kind |-> "value", descs |-> <<>>, args |-> <<a, b, st>>]
       \/ \E s \in Sources :
            /\ srcs = <<s, <<>>>>
            /\ prog = [kind |-> "enum", descs |-> <<>>, args |-> <<>>]
    /\ k = 0
    /\ chain = <<>>
    /\ view = NoView
    /\ alt = NoView
    /\ cur = NoIt
    /\ out = <<>>
    /\ pc = "start"
    /\ mode = "none"
    /\ res = NoRes
    /\ invoked = <<>>
    /\ NoHolders

\* view = r | d for the next descriptor d of the program
PipeDescriptor ==
    /\ pc = "start" /\ prog.kind = "pipe" /\ k < Len(prog.descs)
    /\ \E g \in Indeterminate(prog.descs[k + 1]) :
         LET r == Pipe(IF k = 0 THEN SourceRange(1) ELSE view, prog.descs[k + 1], g)
         IN  /\ view' = IF r.err = "" THEN r.x ELSE view
             /\ k' = IF r.err = "" THEN k + 1 ELSE k
             /\ pc' = After(r.err, "start")
             /\ res' = [op |-> "pipe", arg |-> k + 1, at |-> NoIt, v |-> g, err |-> r.err]
             /\ invoked' = invoked \o
                   PipeCalls(IF k = 0 THEN SourceRange(1) ELSE view, prog.descs[k + 1])
    /\ UNCHANGED <<holderVars, srcs, prog, mode, chain, alt, cur, out>>

\* chain = d1 | d2
ComposeDescriptors ==
    /\ pc = "start" /\ prog.kind = "pipe" /\ Len(prog.descs) >= 2 /\ chain = <<>>
    /\ chain' = ComposeTwo(prog.descs[1], prog.descs[2])
    /\ invoked' = invoked \o ComposeCalls
    /\ UNCHANGED <<holderVars, srcs, prog, mode, k, view, alt, cur, out, pc, res>>

\* chain = chain | d
AppendDescriptor ==
    /\ pc = "start" /\ prog.kind = "pipe" /\ chain # <<>>
    /\ Len(chain) < Len(prog.descs)
    /\ chain' = PushBack(chain, prog.descs[Len(chain) + 1])
    /\ invoked' = invoked \o ComposeCalls
    /\ UNCHANGED <<holderVars, srcs, prog, mode, k, view, alt, cur, out, pc, res>>

\* alt = container | chain
ApplyPipeline ==
    /\ pc = "start" /\ prog.kind = "pipe" /\ chain # <<>> /\ alt = NoView
    /\ Len(chain) = Len(prog.descs)
    /\ \E g \in Indeterminate(chain[Len(chain)]) :
         LET r == PipeTuple(SourceRange(1), chain, [j \in 1..Len(chain) |-> g])
         IN  /\ alt' = IF r.err = "" THEN r.x ELSE alt
             /\ pc' = After(r.err, "start")
             /\ res' = [op |-> "pipeline", arg |-> 0, at |-> NoIt, v |-> g, err |-> r.err]
             /\ invoked' = invoked \o
                   piperCalls(SourceRange(1), chain, [j \in 1..Len(chain) |-> g])
    /\ UNCHANGED <<holderVars, srcs, prog, mode, k, chain, view, cur, out>>

\* view = zip(c1, c2)
ZipContainers ==
    /\ pc = "start" /\ prog.kind = "zip" /\ view = NoView
    /\ LET r == zip(<<SourceRange(1), SourceRange(2)>>)
       IN  /\ view' = IF r.err = "" THEN r.x ELSE view
           /\ pc' = After(r.err, "start")
           /\ res' = [op |-> "zip", arg |-> 0, at |-> NoIt, v |-> 0, err |-> r.err]
    /\ UNCHANGED <<holderVars, invoked, srcs, prog, mode, k, chain, alt, cur, out>>

\* view = enumerate(c)
CallEnumerate ==
    /\ pc = "start" /\ prog.kind = "enum" /\ view = NoView
    /\ LET r == enumerate(1)
       IN  /\ view' = IF r.err = "" THEN r.x ELSE view
           /\ pc' = After(r.err, "start")
           /\ res' = [op |-> "enumerate", arg |-> 0, at |-> NoIt, v |-> 0, err |-> r.err]
    /\ UNCHANGED <<holderVars, invoked, srcs, prog, mode, k, chain, alt, cur, out>>

\* alt = zip(valueRange(0, c.size()), c)
ZipValueRange ==
    /\ pc = "start" /\ prog.kind = "enum" /\ alt = NoView
    /\ LET r == zip(<<valueRange(0, Len(srcs[1])), SourceRange(1)>>)
       IN  /\ alt' = IF r.err = "" THEN r.x ELSE alt
           /\ pc' = After(r.err, "start")
           /\ res' = [op |-> "zip", arg |-> 0, at |-> NoIt, v |-> 0, err |-> r.err]
    /\ UNCHANGED <<holderVars, invoked, srcs, prog, mode, k, chain, view, cur, out>>

\* view = valueRange(start, end)
CallValueRange ==
    /\ pc = "start" /\ prog.kind = "value" /\ view = NoView /\ prog.args[3] = 1
    /\ view' = valueRange(prog.args[1], prog.args[2])
    /\ UNCHANGED <<holderVars, invoked, srcs, prog, mode, k, chain, alt, cur, out, pc, res>>

\* view = steppedValueRange(start, end, step)
CallSteppedValueRange ==
    /\ pc = "start" /\ prog.kind = "value" /\ view = NoView
    /\ view' = steppedValueRange(prog.args[1], prog.args[2], prog.args[3])
    /\ UNCHANGED <<holderVars, invoked, srcs, prog, mode, k, chain, alt, cur, out, pc, res>>

\* for (it = begin(view); ...
BeginForward ==
    /\ pc = "start" /\ Ready
    /\ cur' = view.b /\ out' = <<>> /\ pc' = "fwd" /\ mode' = "fwd"
    /\ UNCHANGED <<holderVars, invoked, srcs, prog, k, chain, view, alt, res>>

\* ... it != end(view); ++it) out.push_back(*it)
ForwardStep ==
    /\ pc = "fwd"
    /\ IF IterEq(cur, view.e)
       THEN pc' = "done" /\ UNCHANGED <<cur, out, res>>
       ELSE IF Len(out) >= MaxOut
       THEN pc' = "overrun" /\ UNCHANGED <<cur, out, res>>
       ELSE LET d == Call("deref", cur)
                r == Call("inc", cur)
            IN  IF d.err # ""
                THEN /\ pc' = After(d.err, "fwd")
                     /\ res' = [op |-> "deref", arg |-> 0, at |-> cur, v |-> 0, err |-> d.err]
                     /\ UNCHANGED <<cur, out>>
                ELSE /\ out' = Append(out, d.v)
                     /\ cur' = IF r.err = "" THEN r.x ELSE cur
                     /\ pc' = After(r.err, "fwd")
                     /\ res' = [op |-> "inc", arg |-> 0, at |-> cur, v |-> 0, err |-> r.err]
    /\ UNCHANGED <<holderVars, invoked, srcs, prog, mode, k, chain, view, alt>>

\* for (it = end(view); ...
BeginBackward ==
    /\ pc = "start" /\ Ready
    /\ cur' = view.e /\ out' = <<>> /\ pc' = "bwd" /\ mode' = "bwd"
    /\ UNCHANGED <<holderVars, invoked, srcs, prog, k, chain, view, alt, res>>

\* ... it != begin(view); ) { --it; out.push_back(*it); }
BackwardStep ==
    /\ pc = "bwd"
    /\ IF IterEq(cur, view.b)
       THEN pc' = "rdone" /\ UNCHANGED <<cur, out, res>>
       ELSE IF Len(out) >= MaxOut
       THEN pc' = "overrun" /\ UNCHANGED <<cur, out, res>>
       ELSE LET r == Call("dec", cur)
                d == Call("deref", r.x)
            IN  IF r.err # ""
                THEN /\ pc' = After(r.err, "bwd")
                     /\ res' = [op |-> "dec", arg |-> 0, at |-> cur, v |-> 0, err |-> r.err]
                     /\ UNCHANGED <<cur, out>>
                ELSE /\ cur' = r.x
                     /\ out' = IF d.err = "" THEN Append(out, d.v) ELSE out
                     /\ pc' = After(d.err, "bwd")
                     /\ res' = [op |-> "deref", arg |-> 0, at |-> r.x, v |-> 0, err |-> d.err]
    /\ UNCHANGED <<holderVars, invoked, srcs, prog, mode, k, chain, view, alt>>

\* the client takes a copy of begin(view) or end(view) and steps it at will
BeginFree ==
    /\ pc = "start" /\ Ready
    /\ \E c \in {view.b, view.e} : cur' = c
    /\ pc' = "free" /\ mode' = "free"
    /\ UNCHANGED <<holderVars, invoked, srcs, prog, k, chain, view, alt, out, res>>

\* ++it
FreeIncrement ==
    /\ pc = "free"
    /\ LET r == Call("inc", cur)
       IN  /\ cur' = IF r.err = "" THEN r.x ELSE cur
           /\ pc' = After(r.err, "free")
           /\ res' = [op |-> "inc", arg |-> 0, at |-> cur, v |-> 0, err |-> r.err]
    /\ UNCHANGED <<holderVars, invoked, srcs, prog, mode, k, chain, view, alt, out>>

\* --it
FreeDecrement ==
    /\ pc = "free"
    /\ LET r == Call("dec", cur)
       IN  /\ cur' = IF r.err = "" THEN r.x ELSE cur
           /\ pc' = After(r.err, "free")
           /\ res' = [op |-> "dec", arg |-> 0, at |-> cur, v |-> 0, err |-> r.err]
    /\ UNCHANGED <<holderVars, invoked, srcs, prog, mode, k, chain, view, alt, out>>

\* *it
FreeDeref ==
    /\ pc = "free"
    /\ LET d == Call("deref", cur)
       IN  /\ pc' = After(d.err, "free")
           /\ res' = [op |-> "deref", arg |-> 0, at |-> cur, v |-> d.v, err |-> d.err]
    /\ UNCHANGED <<holderVars, invoked, srcs, prog, mode, k, chain, view, alt, cur, out>>

\* it += n; the client of this model offsets the iterators of one-adaptor
\* views only
FreePlusAssign ==
    /\ pc = "free" /\ prog.kind = "pipe" /\ Len(prog.descs) = 1
    /\ \E n \in (-MaxOffset)..MaxOffset :
         LET r == OperatorPlusAssign(cur, n)
         IN  /\ cur' = IF r.err = "" THEN r.x ELSE cur
             /\ pc' = After(r.err, "free")
             /\ res' = [op |-> "add", arg |-> n, at |-> cur, v |-> 0, err |-> r.err]
    /\ UNCHANGED <<holderVars, invoked, srcs, prog, mode, k, chain, view, alt, out>>

\* it -= n
FreeMinusAssign ==
    /\ pc = "free" /\ prog.kind = "pipe" /\ Len(prog.descs) = 1
    /\ \E n \in (-MaxOffset)..MaxOffset :
         LET r == OperatorMinusAssign(cur, n)
         IN  /\ cur' = IF r.err = "" THEN r.x ELSE cur
             /\ pc' = After(r.err, "free")
             /\ res' = [op |-> "sub", arg |-> n, at |-> cur, v |-> 0, err |-> r.err]
    /\ UNCHANGED <<holderVars, invoked, srcs, prog, mode, k, chain, view, alt, out>>

\* one visit of a round trip: the position and the element read there
Visit(dir, a, v) == [dir |-> dir, at |-> a, v |-> v]

IsUp(e) == e.dir = "up"

IsDown(e) == e.dir = "down"

\* it = begin(view), to be advanced some way and then brought back
BeginRoundTrip ==
    /\ pc = "start" /\ Ready /\ prog.kind = "pipe"
    /\ cur' = view.b /\ out' = <<>> /\ pc' = "up" /\ mode' = "sym"
    /\ UNCHANGED <<holderVars, invoked, srcs, prog, k, chain, view, alt, res>>

\* visited.push_back(*it); ++it;  while it != end(view)
UpStep ==
    /\ pc = "up" /\ ~IterEq(cur, view.e) /\ Len(out) < MaxOut
    /\ LET d == Call("deref", cur)
           r == Call("inc", cur)
       IN  IF d.err # ""
           THEN /\ pc' = After(d.err, "up")
                /\ res' = [op |-> "deref", arg |-> 0, at |-> cur, v |-> 0, err |-> d.err]
                /\ UNCHANGED <<cur, out>>
           ELSE /\ out' = Append(out, Visit("up", cur, d.v))
                /\ cur' = IF r.err = "" THEN r.x ELSE cur
                /\ pc' = After(r.err, "up")
                /\ res' = [op |-> "inc", arg |-> 0, at |-> cur, v |-> 0, err |-> r.err]
    /\ UNCHANGED <<holderVars, invoked, srcs, prog, mode, k, chain, view, alt>>

\* the client stops advancing, after any number of steps
TurnBack ==
    /\ pc = "up"
    /\ pc' = "down"
    /\ UNCHANGED <<holderVars, invoked, srcs, prog, mode, k, chain, view, alt, cur, out, res>>

\* --it; revisited.push_back(*it);  as many times as it was advanced
DownStep ==
    /\ pc = "down"
    /\ IF Len(SelectSeq(out, IsDown)) = Len(SelectSeq(out, IsUp))
       THEN pc' = "back" /\ UNCHANGED <<cur, out, res>>
       ELSE LET r == Call("dec", cur)
                d == Call("deref", r.x)
            IN  IF r.err # ""
                THEN /\ pc' = After(r.err, "down")
                     /\ res' = [op |-> "dec", arg |-> 0, at |-> cur, v |-> 0, err |-> r.err]
                     /\ UNCHANGED <<cur, out>>
                ELSE /\ cur' = r.x
                     /\ out' = IF d.err = "" THEN Append(out, Visit("down", r.x, d.v)) ELSE out
                     /\ pc' = After(d.err, "down")
                     /\ res' = [op |-> "deref", arg |-> 0, at |-> r.x, v |-> 0, err |-> d.err]
    /\ UNCHANGED <<holderVars, invoked, srcs, prog, mode, k, chain, view, alt>>

\* the Range observers, called on the view once it has been traversed
CallRange(op, arg, r) ==
    /\ pc = "done"
    /\ res' = [op |-> op, arg |-> arg, at |-> view.b, v |-> r.v, err |-> r.err]
    /\ pc' = After(r.err, "done")
    /\ mode' = "range"
    /\ UNCHANGED <<holderVars, invoked, srcs, prog, k, chain, view, alt, cur, out>>

CallSize == CallRange("size", 0, RangeSize(view))

CallEmpty == CallRange("empty", 0, Val(RangeEmpty(view)))

CallIndex == \E i \in 0..(MaxLen + 1) : CallRange("index", i, RangeIndex(view, i))

CallFront == CallRange("front", 0, RangeFront(view))

CallBack == CallRange("back", 0, RangeBack(view))

Next ==
    \/ PipeDescriptor
    \/ ComposeDescriptors
    \/ AppendDescriptor
    \/ ApplyPipeline
    \/ ZipContainers
    \/ CallEnumerate
    \/ ZipValueRange
    \/ CallValueRange
    \/ CallSteppedValueRange
    \/ BeginForward
    \/ ForwardStep
    \/ BeginBackward
    \/ BackwardStep
    \/ BeginFree
    \/ FreeIncrement
    \/ FreeDecrement
    \/ FreeDeref
    \/ FreePlusAssign
    \/ FreeMinusAssign
    \/ BeginRoundTrip
    \/ UpStep
    \/ TurnBack
    \/ DownStep
    \/ CallSize
    \/ CallEmpty
    \/ CallIndex
    \/ CallFront
    \/ CallBack

Spec == Init /\ [][Next]_vars

\* ------------------------------------------------- NullableFunction
\* A holder is [live, ptr]: whether the NullableFunction object exists, and its
\* m_function / m_ptr as the number of the F it points to in objects (0 is
\* nullptr).  An F is [buf, val, state, dtor]: the holder whose m_buffer /
\* m_memory it was constructed in, the callable it was constructed from or
\* as, whether it has been moved from, and how many times ~F() ran on it.
\* Holders 1..MaxHolders belong to the client; Param is the by-value
\* parameter f of operator=.  An operation works on
\* [hs |-> holders, os |-> objects, ev |-> the constructions and destructions
\* so far, each with the holder whose buffer it happened in].
Param == MaxHolders + 1

Slots == 1..MaxHolders

NoHolder == [live |-> FALSE, ptr |-> 0]

\* new (&m_buffer) F{...}: an F constructed in the buffer of holder x
PlacementNew(h, x, val) ==
    [h EXCEPT !.os = Append(@, [buf |-> x, val |-> val, state |-> "value", dtor |-> 0]),
              !.ev = Append(@, <<"construct", x>>),
              !.hs[x].ptr = Len(h.os) + 1]

\* x->~F()
DestroyValue(h, id) ==
    [h EXCEPT !.os[id].dtor = @ + 1, !.ev = Append(@, <<"destroy", h.os[id].buf>>)]

\* F{std::move(*f.m_function)}: the F of holder f after it was moved from
MovedFrom(h, f) == [h EXCEPT !.os[h.hs[f].ptr].state = "moved"]

\* deleteFunction that forgets to run the destructor
deleteFunctionNothing(h, x) == h

\* NullableFunction::deleteFunction (NullableFunction.h)
deleteFunction(h, x) ==
    IF h.hs[x].ptr # 0 THEN DestroyValue(h, h.hs[x].ptr) ELSE h

\* NullableFunction::copyFunction (NullableFunction.h)
copyFunction(h, x, f) ==
    IF h.hs[f].ptr # 0 THEN PlacementNew(h, x, h.os[h.hs[f].ptr].val)
    ELSE [h EXCEPT !.hs[x].ptr = 0]

\* NullableFunction::moveFunction (NullableFunction.h)
moveFunction(h, x, f) ==
    IF h.hs[f].ptr # 0
    THEN PlacementNew(MovedFrom(h, f), x, h.os[h.hs[f].ptr].val)
    ELSE [h EXCEPT !.hs[x].ptr = 0]

\* the members of a holder under construction: m_function = nullptr, m_ptr{}
Fresh(h, x) == [h EXCEPT !.hs[x] = [live |-> TRUE, ptr |-> 0]]

\* NullableFunction() = default
DefaultCtor(h, x) == Fresh(h, x)

\* NullableFunction(F f), in both headers
CallableCtor(h, x, val) == PlacementNew(Fresh(h, x), x, val)

\* NullableFunction(const NullableFunction &f) of NullableFunction.h
RawCopyCtor(h, x, f) == copyFunction(Fresh(h, x), x, f)

\* NullableFunction(NullableFunction &&f) of NullableFunction.h
RawMoveCtor(h, x, f) == moveFunction(Fresh(h, x), x, f)

\* ~NullableFunction() of NullableFunction.h
RawDtor(h, x) == [deleteFunction(h, x) EXCEPT !.hs[x] = NoHolder]

\* operator=(NullableFunction f) of NullableFunction.h; withParam is the state
\* once the argument has been copied or moved into the parameter
RawAssign(withParam, x) ==
    RawDtor(moveFunction(deleteFunction(withParam, x), x, Param), Param)

\* std::unique_ptr<F, DestructorPtr>::reset(nullptr), m_ptr = nullptr
UniqueReset(h, x) ==
    IF h.hs[x].ptr # 0
    THEN [DestroyValue(h, h.hs[x].ptr) EXCEPT !.hs[x].ptr = 0]
    ELSE h

\* NullableFunction(const NullableFunction &f) of Range.h: the new F is
\* move-constructed from the F of the source; an rvalue source binds to this
\* constructor too, Range.h declaring no move constructor
UniqueCopyCtor(h, x, f) ==
    IF h.hs[f].ptr # 0
    THEN PlacementNew(MovedFrom(Fresh(h, x), f), x, h.os[h.hs[f].ptr].val)
    ELSE Fresh(h, x)

\* the implicit destructor of Range.h's NullableFunction: ~unique_ptr
UniqueDtor(h, x) == [UniqueReset(h, x) EXCEPT !.hs[x] = NoHolder]

\* operator=(NullableFunction f) of Range.h
UniqueAssign(withParam, x) ==
    LET cleared == UniqueReset(withParam, x)
        installed ==
            IF cleared.hs[Param].ptr # 0
            THEN PlacementNew(MovedFrom(cleared, Param), x,
                              cleared.os[cleared.hs[Param].ptr].val)
            ELSE cleared
    IN  UniqueDtor(installed, Param)

\* the state the next operation starts from
Heap == [hs |-> holders, os |-> objects, ev |-> <<>>]

\* an F whose lifetime is over as it should be: destroyed once, and no holder
\* pointing to it any more
Ended(h, o) == h.os[o].dtor = 1 /\ \A x \in 1..Param : h.hs[x].ptr # o

\* the number of o among the Fs that are left once the ended ones are forgotten
Renumbered(h, o) == Cardinality({j \in 1..o : ~Ended(h, j)})

\* the operation is over: its effects, and what it was; objects keeps the Fs
\* that are alive or whose lifetime went wrong
Done(h, op, x, f) ==
    /\ holders' = [y \in 1..Param |->
                     [h.hs[y] EXCEPT !.ptr = IF @ = 0 THEN 0 ELSE Renumbered(h, @)]]
    /\ objects' = [i \in 1..Renumbered(h, Len(h.os)) |->
                     h.os[CHOOSE o \in 1..Len(h.os) : ~Ended(h, o) /\ Renumbered(h, o) = i]]
    /\ hlog' = [op |-> op, dst |-> x, src |-> f,
                srcFull |-> IF f = 0 THEN FALSE ELSE holders[f].ptr # 0,
                old |-> holders[x].ptr, ev |-> h.ev]
    /\ UNCHANGED <<variant, rangeVars>>

NoLog == [op |-> "none", dst |-> 0, src |-> 0, srcFull |-> FALSE, old |-> 0, ev |-> <<>>]

InitHolders ==
    /\ variant \in {"NullableFunction.h", "Range.h"}
    /\ holders = [x \in 1..Param |-> NoHolder]
    /\ objects = <<>>
    /\ hlog = NoLog
    /\ srcs = <<<<>>, <<>>>>
    /\ prog = [kind |-> "holders", descs |-> <<>>, args |-> <<>>]
    /\ k = 0
    /\ chain = <<>>
    /\ view = NoView
    /\ alt = NoView
    /\ cur = NoIt
    /\ out = <<>>
    /\ pc = "holders"
    /\ mode = "none"
    /\ res = NoRes
    /\ invoked = <<>>

\* NullableFunction<F> x;
DefaultConstruct ==
    \E x \in Slots :
        /\ ~holders[x].live
        /\ Done(DefaultCtor(Heap, x), "default", x, 0)

\* NullableFunction<F> x{f};
ConstructFromCallable ==
    \E x \in Slots, val \in Preds :
        /\ ~holders[x].live
        /\ Done(CallableCtor(Heap, x, val), "callable", x, 0)

\* NullableFunction<F> x{s};
CopyConstruct ==
    \E x \in Slots, s \in Slots :
        /\ ~holders[x].live /\ holders[s].live
        /\ Done(IF variant = "Range.h" THEN UniqueCopyCtor(Heap, x, s)
                ELSE RawCopyCtor(Heap, x, s), "copy", x, s)

\* NullableFunction<F> x{std::move(s)};
MoveConstruct ==
    \E x \in Slots, s \in Slots :
        /\ ~holders[x].live /\ holders[s].live
        /\ Done(IF variant = "Range.h" THEN UniqueCopyCtor(Heap, x, s)
                ELSE RawMoveCtor(Heap, x, s), "move", x, s)

\* x = s;  or  x = std::move(s);  (x and s may be the same holder)
Assign ==
    \E x \in Slots, s \in Slots, moved \in BOOLEAN :
        /\ holders[x].live /\ holders[s].live
        /\ Done(IF variant = "Range.h"
                THEN UniqueAssign(UniqueCopyCtor(Heap, Param, s), x)
                ELSE RawAssign(IF moved THEN RawMoveCtor(Heap, Param, s)
                               ELSE RawCopyCtor(Heap, Param, s), x),
                "assign", x, s)

\* x goes out of scope
Destroy ==
    \E x \in Slots :
        /\ holders[x].live
        /\ Done(IF variant = "Range.h" THEN UniqueDtor(Heap, x) ELSE RawDtor(Heap, x),
                "destroy", x, 0)

NextHolders ==
    \/ DefaultConstruct
    \/ ConstructFromCallable
    \/ CopyConstruct
    \/ MoveConstruct
    \/ Assign
    \/ Destroy

SpecHolders == InitHolders /\ [][NextHolders]_vars

\* ----------------------------------------------------------- claims
\* what the program is
Single(type) ==
    prog.kind = "pipe" /\ Len(prog.descs) = 1 /\ prog.descs[1].type = type

RECURSIVE Filtered(_, _)
\* the subsequence of s whose elements satisfy p
Filtered(s, p) ==
    IF s = <<>> THEN <<>>
    ELSE IF ApplyPred(p, Head(s)) THEN <<Head(s)>> \o Filtered(Tail(s), p)
    ELSE Filtered(Tail(s), p)

IsPrefix(s, t) == Len(s) <= Len(t) /\ s = SubSeq(t, 1, Len(s))

Reverse(s) == [i \in 1..Len(s) |-> s[Len(s) + 1 - i]]

\* C1: forward iteration of S | filter(P) from begin() until it equals end()
\* fails no assertion and yields exactly the elements of S that satisfy P,
\* each once, in their original order
C1_FilterForward ==
    (Single("filter") /\ mode = "fwd") =>
        /\ pc \in {"fwd", "done"}
        /\ IsPrefix(out, Filtered(srcs[1], prog.descs[1].f))
        /\ pc = "done" => out = Filtered(srcs[1], prog.descs[1].f)

\* a finished traversal that skipped the first and the last element of S
C1_Witness ==
    /\ Single("filter") /\ mode = "fwd" /\ pc = "done"
    /\ Len(srcs[1]) = 3 /\ Len(out) = 1
    /\ ~ApplyPred(prog.descs[1].f, srcs[1][1])
    /\ ~ApplyPred(prog.descs[1].f, srcs[1][3])

\* C2: backward iteration of S | filter(P), from end() decrementing until the
\* position equals begin(), fails no assertion and yields the elements of S
\* that satisfy P in reverse order
C2_FilterBackward ==
    (Single("filter") /\ mode = "bwd") =>
        /\ pc \in {"bwd", "rdone"}
        /\ IsPrefix(out, Reverse(Filtered(srcs[1], prog.descs[1].f)))
        /\ pc = "rdone" => out = Reverse(Filtered(srcs[1], prog.descs[1].f))

\* C3: for 0 <= n <= length(S), forward iteration of S | take_n(n) yields
\* S[0..n-1] in order and the view has size n, whatever m_n held before the
\* constructor initialised it
C3_TakeForward ==
    (Single("take") /\ prog.descs[1].n <= Len(srcs[1]) /\ mode \in {"fwd", "range"}) =>
        /\ pc \in {"fwd", "done"} => IsPrefix(out, srcs[1])
        /\ pc = "done" => out = SubSeq(srcs[1], 1, prog.descs[1].n)
        /\ (pc = "done" /\ res.op = "size") => res.v = prog.descs[1].n

\* C4: S | map(F) has as many elements as S, the i-th dereference of a forward
\* iteration returns F(S[i]), and no source position is skipped or repeated
C4_MapForward ==
    (Single("map") /\ mode \in {"fwd", "range"}) =>
        /\ mode = "fwd" => pc \in {"fwd", "done"}
        /\ mode = "fwd" => cur.it.it = Len(out)
        /\ Len(out) <= Len(srcs[1])
        /\ \A i \in 1..Len(out) : out[i] = ApplyFun(prog.descs[1].f, srcs[1][i])
        /\ pc = "done" => Len(out) = Len(srcs[1])
        /\ (pc = "done" /\ res.op = "size") => res.v = Len(srcs[1])

\* a finished traversal of a map over three elements, its size taken
C4_Witness ==
    /\ Single("map") /\ mode = "range" /\ pc = "done" /\ res.op = "size"
    /\ Len(srcs[1]) = 3 /\ Len(out) = 3
    /\ out[3] # srcs[1][3]

\* C5: container | (filter(P) | map(F) | take_n(n)) yields the same element
\* sequence as ((container | filter(P)) | map(F)) | take_n(n)
C5_PipelineEquivalence ==
    (view # NoView /\ k = Len(prog.descs) /\ alt # NoView) => ToVector(alt) = ToVector(view)

\* C6: for containers of equal length L, zip is a view of size L whose i-th
\* element is (S1[i], S2[i]); every increment advances both components and
\* the traversal reaches end() after exactly L increments
C6_ZipLockstep ==
    (prog.kind = "zip" /\ Len(srcs[1]) = Len(srcs[2]) /\ mode \in {"none", "fwd", "range"}) =>
        /\ mode = "none" => pc = "start"
        /\ mode = "fwd" => pc \in {"fwd", "done"}
        /\ mode = "fwd" => cur.it[1].it = Len(out) /\ cur.it[2].it = Len(out)
        /\ Len(out) <= Len(srcs[1])
        /\ \A i \in 1..Len(out) : out[i] = <<srcs[1][i], srcs[2][i]>>
        /\ pc = "done" => Len(out) = Len(srcs[1])
        /\ (pc = "done" /\ res.op = "size") => res.v = Len(srcs[1])

\* a finished traversal of two zipped containers of two elements
C6_Witness ==
    /\ prog.kind = "zip" /\ mode = "fwd" /\ pc = "done"
    /\ Len(srcs[1]) = 2 /\ Len(srcs[2]) = 2 /\ Len(out) = 2
    /\ srcs[1] # srcs[2]

\* C7: for start <= end and step >= 1, forward iteration of
\* steppedValueRange(start, end, step) terminates and yields exactly
\* start, start + step, ... below end, without overflow
C7_SteppedRange ==
    (prog.kind = "value" /\ prog.args[1] <= prog.args[2] /\ mode = "fwd") =>
        /\ pc \in {"fwd", "done"}
        /\ \A i \in 1..Len(out) :
             /\ out[i] = prog.args[1] + (i - 1) * prog.args[3]
             /\ out[i] < prog.args[2]
        /\ pc = "done" =>
             prog.args[1] + Len(out) * prog.args[3] >= prog.args[2]

\* C8: for n > length(S), a forward traversal of S | take_n(n) from begin()
\* to end() fails an assertion: it never ends silently
C8_TakeTooMany ==
    (Single("take") /\ prog.descs[1].n > Len(srcs[1]) /\ mode = "fwd") =>
        pc # "done"

AtSentinelEnd(a) == a.kind \notin {"none", "ptr"} /\ PosEq(a, a.it, a.se)

AtSentinelBegin(a) == a.kind \notin {"none", "ptr"} /\ PosEq(a, a.it, a.sb)

\* C9: for every adaptor iterator, an increment or a dereference at
\* sentinel-end and a decrement at sentinel-begin fail an assertion and leave
\* the position unmoved
C9_BoundaryAsserts ==
    /\ (res.op \in {"inc", "deref"} /\ AtSentinelEnd(res.at)) =>
           (res.err \in AssertErrs /\ cur = res.at)
    /\ (res.op = "dec" /\ AtSentinelBegin(res.at)) =>
           (res.err \in AssertErrs /\ cur = res.at)

\* C10: on a view over filter, map or take adaptors, size() is the number of
\* elements a forward iteration produced, empty() holds exactly when that is
\* 0, V[i] is the i-th of them, front() the first and back() the last;
\* V[i] with i >= size() and front()/back() of an empty view fail an assertion
C10_RangeObservers ==
    (prog.kind = "pipe" /\ mode = "range") =>
        /\ res.op = "size" => (res.err = "" /\ res.v = Len(out))
        /\ res.op = "empty" => (res.err = "" /\ res.v = (Len(out) = 0))
        /\ res.op = "index" =>
             IF res.arg < Len(out) THEN res.err = "" /\ res.v = out[res.arg + 1]
             ELSE res.err = "assert_idx"
        /\ res.op = "front" =>
             IF Len(out) > 0 THEN res.err = "" /\ res.v = out[1]
             ELSE res.err = "assert_empty"
        /\ res.op = "back" =>
             IF Len(out) > 0 THEN res.err = "" /\ res.v = out[Len(out)]
             ELSE res.err = "assert_empty"

\* the second of two elements of a filter view read by index
C10_Witness ==
    /\ Single("filter") /\ mode = "range" /\ res.op = "index" /\ res.arg = 1
    /\ res.err = "" /\ Len(out) = 2 /\ Len(srcs[1]) = 3

\* C11: enumerate(S) yields the same sequence as zip(valueRange(0, length(S)), S):
\* it has length(S) elements and its i-th element is the pair (i, S[i])
C11_Enumerate ==
    (prog.kind = "enum" /\ mode \in {"none", "fwd", "range"}) =>
        /\ mode = "none" => pc = "start"
        /\ mode = "fwd" => pc \in {"fwd", "done"}
        /\ Len(out) <= Len(srcs[1])
        /\ \A i \in 1..Len(out) : out[i] = <<i - 1, srcs[1][i]>>
        /\ pc = "done" => Len(out) = Len(srcs[1])
        /\ (pc = "done" /\ res.op = "size") => res.v = Len(srcs[1])
        /\ (view # NoView /\ alt # NoView) => ToVector(view) = ToVector(alt)

\* a finished traversal of enumerate over three elements, the zip built too
C11_Witness ==
    /\ prog.kind = "enum" /\ mode = "fwd" /\ pc = "done" /\ alt # NoView
    /\ Len(srcs[1]) = 3 /\ Len(out) = 3 /\ out[3][1] = 2

\* a filter iterator over srcs[1] is at sentinel-end or on an element of the
\* container that satisfies its predicate p
FilterValid(a, p) ==
    \/ IterEq(a.it, a.se)
    \/ /\ a.it.it \in 0..(Len(srcs[1]) - 1)
       /\ ApplyPred(p, srcs[1][a.it.it + 1])

\* C12: a filter iterator built with explicit bounds over S and P is, after
\* construction and after any sequence of ++, --, += and -= that fails no
\* assertion, at sentinel-end or at a position of S whose element satisfies P
C12_FilterValidity ==
    Single("filter") =>
        /\ view # NoView => FilterValid(view.b, prog.descs[1].f)
        /\ (cur # NoIt /\ cur.fn # NoFn) => FilterValid(cur, prog.descs[1].f)
        /\ pc # "ub"

\* a -= that went back over an element that does not satisfy P
C12_Witness ==
    /\ Single("filter") /\ mode = "free" /\ pc = "free"
    /\ res.op = "sub" /\ res.arg = 1 /\ res.err = ""
    /\ cur.fn # NoFn /\ cur.it.it = 0 /\ res.at.it.it = 2

\* C13: advancing a filter iterator k times from begin() (up to the end
\* position) and decrementing it k times revisits the same matching elements
\* in reverse order and returns to the starting position; no matching
\* element is skipped, no other element is visited
C13_FilterSymmetry ==
    (Single("filter") /\ mode = "sym") =>
        LET ups == SelectSeq(out, IsUp)
            downs == SelectSeq(out, IsDown)
            matching == Filtered(srcs[1], prog.descs[1].f)
        IN  /\ pc \in {"up", "down", "back"}
            /\ Len(ups) <= Len(matching)
            /\ \A i \in 1..Len(ups) : ups[i].v = matching[i]
            /\ Len(downs) <= Len(ups)
            /\ \A j \in 1..Len(downs) :
                 /\ downs[j].at = ups[Len(ups) + 1 - j].at
                 /\ downs[j].v = ups[Len(ups) + 1 - j].v
            /\ pc = "back" => cur = view.b

\* a round trip over [x, y, z] that reached the end position and came back
\* over y, which does not satisfy P
C13_Witness ==
    /\ Single("filter") /\ mode = "sym" /\ pc = "back"
    /\ Len(srcs[1]) = 3 /\ Len(out) = 4
    /\ ~ApplyPred(prog.descs[1].f, srcs[1][2])

\* C14: for a take iterator at a dereferenceable position, one increment
\* followed by one decrement restores the position and the remaining count,
\* also when the increment is the one that ends the view
C14_TakeRoundTrip ==
    (Single("take") /\ mode = "sym" /\ pc \in {"down", "back", "aborted"}) =>
        LET ups == SelectSeq(out, IsUp)
            downs == SelectSeq(out, IsDown)
        IN  /\ pc # "aborted"
            /\ Len(downs) >= 1 =>
                 /\ downs[1].at.it = ups[Len(ups)].at.it
                 /\ downs[1].at.n = ups[Len(ups)].at.n

\* the sentinels of an iterator, outermost first
Sentinels(a) == IF a = NoIt THEN <<>> ELSE <<a.sb, a.se>>

\* C15: no operation on an iterator (++, --, +=, -=, the hooks, Take's
\* force-to-end) changes its sentinel-begin or sentinel-end, and the skip
\* loops of a filter iterator over S keep it within [begin(S), end(S)] and
\* never read S at end(S)
C15_SentinelBounding ==
    /\ [][pc # "start" => Sentinels(cur') = Sentinels(cur)]_vars
    /\ [](Single("filter") =>
            /\ pc # "ub"
            /\ cur # NoIt => cur.it.it \in 0..Len(srcs[1]))

\* a take iterator forced to sentinel-end before the end of the container
C15_Witness ==
    /\ Single("take") /\ mode = "fwd" /\ pc = "fwd"
    /\ res.op = "inc" /\ res.err = "" /\ cur.n = 0
    /\ cur.it = cur.se /\ res.at.it.it + 1 < Len(srcs[1])

\* C16: constructing a take iterator applies the count check once, after the
\* count is set to n: a freshly built take_n(n) iterator sits at begin with
\* remaining count n - 1 when n > 0, and at sentinel-end when n = 0
C16_SingleResync ==
    (Single("take") /\ view # NoView) =>
        IF prog.descs[1].n > 0
        THEN view.b.it = Ptr(1, 0) /\ view.b.n = prog.descs[1].n - 1
        ELSE view.b.it = view.b.se

\* C18: composing descriptors into a pipeline invokes nothing, and binding
\* filter(P) or map(F) to a source to create the view invokes neither P nor F
C18_Laziness ==
    prog.kind = "pipe" => invoked = <<>>

RECURSIVE UpToFirstMatch(_, _)
\* the elements of s up to and including the first that satisfies p
UpToFirstMatch(s, p) ==
    IF s = <<>> THEN <<>>
    ELSE IF ApplyPred(p, Head(s)) THEN <<Head(s)>>
    ELSE <<Head(s)>> \o UpToFirstMatch(Tail(s), p)

\* how many times the client has bound its first descriptor to the container
Bindings == (IF k >= 1 THEN 1 ELSE 0) + (IF alt # NoView THEN 1 ELSE 0)

\* C18 as amended: composing descriptors invokes nothing, binding map(F) or
\* take_n(n) invokes nothing, and binding filter(P) to a container invokes P,
\* and only P, on the elements from the first one up to and including the
\* first that satisfies P, leaving begin() on that element
C18_LazyUpToFirstMatch ==
    prog.kind = "pipe" =>
        LET d == prog.descs[1]
            calls == UpToFirstMatch(srcs[1], d.f)
        IN  /\ Bindings = 0 => invoked = <<>>
            /\ d.type # "filter" => invoked = <<>>
            /\ d.type = "filter" =>
                 /\ Len(invoked) = Bindings * Len(calls)
                 /\ \A i \in 1..Len(invoked) :
                      invoked[i] = [fn |-> d.f, arg |-> calls[((i - 1) % Len(calls)) + 1]]
            /\ (Single("filter") /\ view # NoView) =>
                 Len(invoked) =
                     IF view.b.it = view.b.se THEN Len(srcs[1]) ELSE view.b.it.it + 1

\* a filter bound to [x, y, z] whose first match is y: P was called on x and y
C18_Witness ==
    /\ Single("filter") /\ view # NoView /\ mode = "none"
    /\ Len(srcs[1]) = 3 /\ Len(invoked) = 2 /\ view.b.it.it = 1

\* C19: the end position of a view made by filter(P) or map(F) carries an
\* empty callable holder, and no forward traversal from begin() to end(), nor
\* size(), indexing, front() or back(), ever invokes an empty holder
C19_NoEmptyInvocation ==
    (/\ prog.kind = "pipe" /\ prog.descs[1].type \in {"filter", "map"}
     /\ mode \in {"none", "fwd", "range"}) =>
        /\ view # NoView => view.e.fn = NoFn
        /\ res.err # "assert_fn"
        /\ pc # "ub"

\* back() of a map view over three elements, after its traversal
C19_Witness ==
    /\ Single("map") /\ mode = "range" /\ res.op = "back" /\ res.err = ""
    /\ Len(out) = 3 /\ view.e.fn = NoFn
    /\ res.v = ApplyFun(prog.descs[1].f, srcs[1][3])

\* the F that holder x destroyed or constructed in its own buffer
IsHeldBy(x) == holders[x].live /\ holders[x].ptr # 0

\* position of the first event e in the last operation, 0 if it did not happen
EventAt(e) ==
    IF \E i \in 1..Len(hlog.ev) : hlog.ev[i] = e
    THEN CHOOSE i \in 1..Len(hlog.ev) :
             hlog.ev[i] = e /\ \A j \in 1..(i - 1) : hlog.ev[j] # e
    ELSE 0

\* C17: after any sequence of constructions, copies, moves, assignments and
\* destructions, every live holder is empty or holds a value that lives in
\* its own buffer; a copy/move-constructed or assigned-to holder is non-empty
\* exactly when its source was; assignment destroys the value held before it
\* installs the new one; every held value is destroyed exactly once (no F is
\* left that is not held, none is destroyed while held or twice)
C17_HolderLifecycle ==
    prog.kind = "holders" =>
        /\ ~holders[Param].live
        /\ \A x \in Slots : IsHeldBy(x) =>
             /\ holders[x].ptr \in 1..Len(objects)
             /\ objects[holders[x].ptr].buf = x
             /\ objects[holders[x].ptr].dtor = 0
        /\ hlog.op \in {"copy", "move", "assign"} =>
             IsHeldBy(hlog.dst) = hlog.srcFull
        /\ (hlog.op = "assign" /\ hlog.old # 0) =>
             /\ EventAt(<<"destroy", hlog.dst>>) # 0
             /\ EventAt(<<"construct", hlog.dst>>) # 0 =>
                  EventAt(<<"destroy", hlog.dst>>) < EventAt(<<"construct", hlog.dst>>)
        /\ \A o \in 1..Len(objects) :
             /\ objects[o].dtor = 0
             /\ \E x \in Slots : IsHeldBy(x) /\ holders[x].ptr = o

\* Range.h: a holder that held a value was assigned from another that holds
\* one, and a third value was made and destroyed for the parameter
C17_Witness ==
    /\ prog.kind = "holders" /\ variant = "Range.h"
    /\ hlog.op = "assign" /\ hlog.old # 0 /\ hlog.srcFull /\ hlog.dst # hlog.src
    /\ IsHeldBy(hlog.dst) /\ IsHeldBy(hlog.src)
    /\ Len(hlog.ev) = 4

====
